---- MODULE Spec2Model ----
(***************************************************************************)
(* Car image gallery of the Auto-world backend (cars/models.py CarImage,   *)
(* cars/views.py CarImage*View).  The database table of CarImage rows, the *)
(* media storage and the HTTP handlers are modelled; every handler is      *)
(* translated statement by statement from the Django code.                 *)
(***************************************************************************)
EXTENDS Integers, Sequences, FiniteSets, TLC

\* ------------------------------------------------------------------ bounds
\* Maximum number of images per car (models.py:261, views.py:269, views.py:321).
MaxImages == 10

\* Number of requests served in one behaviour of the sequential specification.
MaxSteps == 3

\* Largest order value a caller supplies with an upload.
MaxOrder == 1

\* Largest image id a caller names in a URL.
MaxReqId == 2

\* Largest size in bytes ImageUploadSerializer.validate accepts (5 MB).
MaxUploadSize == 5 * 1024 * 1024

\* Sizes of the files a request uploads (of the largest one, in a bulk
\* upload); NoSize for a request without a file.
NoSize == 0

FileSizes == {MaxUploadSize, MaxUploadSize + 1}

\* request.user: the anonymous user, or an authenticated user with its
\* is_staff and is_approved flags.
Users ==
    {u \in [is_authenticated : BOOLEAN, is_staff : BOOLEAN, is_approved : BOOLEAN] :
        ~u.is_authenticated => (~u.is_staff /\ ~u.is_approved)}

Anonymous == [is_authenticated |-> FALSE, is_staff |-> FALSE, is_approved |-> FALSE]

Admin == [is_authenticated |-> TRUE, is_staff |-> TRUE, is_approved |-> TRUE]

\* The cars (listings) of the catalogue: Car rows, never created or deleted here.
Cars == {1, 2}

\* The id no row ever has (primary keys start at 1).
NoId == 0

\* Order values callers send: a negative one, zero, and small positive ones.
OrderInputs == (0 - 1) .. MaxOrder

\* The optional 'order' form field of the single upload: absent or given.
OrderParams == {<<>>} \cup {<<o>> : o \in OrderInputs}

\* Numbers of files in a bulk upload request (0: no 'images' part at all).
FileCounts == {0, 2, 5, 6, MaxImages, MaxImages + 1}

\* Reorder payloads: image_orders holds one or two items {"id": i, "order": o},
\* two items naming different ids; or it is empty.
ReorderIds == {NoId, 2, 3}

ReorderOrders == {0, 1, 2}

ReorderItems ==
    [id : ReorderIds \ {NoId}, order : ReorderOrders]
        \cup {[id |-> NoId, order |-> 0]}

ReorderPayloads ==
    {<<>>} \cup {<<a>> : a \in ReorderItems}
           \cup {p \in ReorderItems \X ReorderItems : p[1].id # p[2].id}

\* ------------------------------------------------------------------- state
VARIABLES
    images,     \* table cars_carimage: pk -> [car, image, is_primary, order]
    nextId,     \* next auto-increment primary key
    files,      \* media storage: the set of stored file names
    nextFile,   \* next fresh file name the storage hands out
    request,    \* the request served last: [op, car, arg, user, size], arg the
                \* order field, the file count, the image_id or the body of
                \* the request, size the size of its (largest) file
    response,   \* its Response: [status, error, detail]
    steps,      \* number of requests served
    req,        \* concurrent requests: worker -> the request it serves, its
                \* position in the handler and the handler's local variables
    users,      \* table of User rows: pk -> [is_staff, is_approved]
    nextUser    \* next auto-increment primary key of the User table

vars ==
    <<images, nextId, files, nextFile, request, response, steps, req, users,
      nextUser>>

\* -------------------------------------------------------------- permissions
\* Faulty variant of HasPermission: any authenticated user may pass.
HasPermissionAuthenticated(user) == user.is_authenticated

\* IsApprovedWorkerOrAdmin.has_permission
HasPermission(user) ==
    IF ~user.is_authenticated THEN FALSE
    ELSE IF user.is_staff THEN TRUE
    ELSE user.is_approved

\* ImageUploadSerializer.validate: the size check.  No view of cars/views.py
\* instantiates this serializer.
ImageUploadValid(size) == ~(size > MaxUploadSize)

\* ------------------------------------------------------- ORM query helpers
\* car.images / CarImage.objects.filter(car=car): the pks of the car's rows.
CarImages(db, car) == {i \in DOMAIN db : db[i].car = car}

\* Faulty variant of Count: a count() that filters on is_primary as well.
CountPrimaryOnly(db, car) ==
    Cardinality({i \in CarImages(db, car) : db[i].is_primary})

\* car.images.count()
Count(db, car) == Cardinality(CarImages(db, car))

\* car.images.exists()
Exists(db, car) == CarImages(db, car) # {}

\* Meta.ordering = ['-is_primary', 'order', 'uploaded_at']; uploaded_at is
\* auto_now_add, so it grows with the pk.
Before(db, a, b) ==
    IF db[a].is_primary # db[b].is_primary THEN db[a].is_primary
    ELSE IF db[a].order # db[b].order THEN db[a].order < db[b].order
    ELSE a < b

\* Faulty variant of First: the row of S with the lowest primary key.
FirstByPk(db, S) == CHOOSE i \in S : \A j \in S \ {i} : i < j

\* queryset.first() over the set S of rows (S non-empty).
First(db, S) == CHOOSE i \in S : \A j \in S \ {i} : Before(db, i, j)

\* car.images.all() as a list: the rows of S under Meta.ordering.
RECURSIVE Ordered(_, _)
Ordered(db, S) ==
    IF S = {} THEN <<>>
    ELSE LET i == First(db, S) IN <<i>> \o Ordered(db, S \ {i})

\* Faulty variant of UnsetPrimary: an update() that matches no row.
UnsetPrimaryNoRow(db, car, pk) == db

\* CarImage.objects.filter(car=car, is_primary=True).exclude(pk=pk)
\*     .update(is_primary=False)
UnsetPrimary(db, car, pk) ==
    [i \in DOMAIN db |->
        IF db[i].car = car /\ db[i].is_primary /\ i # pk
        THEN [db[i] EXCEPT !.is_primary = FALSE]
        ELSE db[i]]

\* PositiveIntegerField: the column carries CHECK ("order" >= 0).
OrderCheck(order) == order >= 0

\* Faulty variant of UniqueTogether: a table without the unique constraint.
NoUniqueTogether(db, pk, car, order) == TRUE

\* Meta.unique_together = ['car', 'order']: the row pk may take (car, order).
UniqueTogether(db, pk, car, order) ==
    \A i \in DOMAIN db \ {pk} : ~(db[i].car = car /\ db[i].order = order)

\* The constraints the database checks on INSERT and UPDATE of a row.
Constraints(db, pk, car, order) ==
    OrderCheck(order) /\ UniqueTogether(db, pk, car, order)

\* INSERT or UPDATE of the row pk.
PutRow(db, pk, row) ==
    [i \in DOMAIN db \cup {pk} |-> IF i = pk THEN row ELSE db[i]]

\* DELETE of the row pk.
DeleteRow(db, pk) == [i \in DOMAIN db \ {pk} |-> db[i]]

\* Faulty variant of Found: a lookup by id alone, of whatever car.
FoundAnyCar(db, car, id) == id \in DOMAIN db

\* get_object_or_404(CarImage, id=image_id, car=car) / CarImage.objects.get
Found(db, car, id) == id \in DOMAIN db /\ db[id].car = car

\* ------------------------------------------------------------ CarImage model
\* Faulty variant of FirstImage: a save() without the first-image branch.
FirstImageNever(db, car) == FALSE

\* 'not self.pk and not self.car.images.exists()': a new image of a car that
\* has no image yet.
FirstImage(db, car) == ~Exists(db, car)

\* 'existing_count >= 10' in CarImage.save.
Full(db, car) == Count(db, car) >= MaxImages

\* CarImage.save().  obj is the instance (car, image, is_primary, order), pk its
\* primary key (the key the INSERT allocates when adding), adding is 'not
\* self.pk', write says that obj.image is an uploaded file not yet in the
\* storage (FileField.pre_save stores it right before the row is written).
\* The statements run in autocommit: what ran before an exception stays.
Save(db, fs, pk, obj, adding, write) ==
    LET first == adding /\ FirstImage(db, obj.car)
        o1 == IF first THEN [obj EXCEPT !.is_primary = TRUE, !.order = 1] ELSE obj
        db1 == IF o1.is_primary
               THEN UnsetPrimary(db, o1.car, IF adding THEN NoId ELSE pk)
               ELSE db
        fs1 == IF write THEN fs \cup {o1.image} ELSE fs
    IN  IF adding /\ Full(db1, o1.car)
        THEN [error |-> "ValueError", db |-> db1, files |-> fs]
        ELSE IF ~Constraints(db1, pk, o1.car, o1.order)
        THEN [error |-> "IntegrityError", db |-> db1, files |-> fs1]
        ELSE [error |-> "none", db |-> PutRow(db1, pk, o1), files |-> fs1]

\* CarImage.objects.create(car=, image=, is_primary=, order=)
Create(db, fs, pk, car, image, is_primary, order) ==
    Save(db, fs, pk,
         [car |-> car, image |-> image, is_primary |-> is_primary, order |-> order],
         TRUE, TRUE)

\* Faulty variant of Delete: a delete() without the promotion.
DeleteNoPromotion(db, pk, obj) == [error |-> "none", db |-> DeleteRow(db, pk)]

\* CarImage.delete() of the instance obj with key pk.  Model.delete removes the
\* row; it does not touch the file in the storage.
Delete(db, pk, obj) ==
    LET others == CarImages(db, obj.car) \ {pk}
    IN  IF obj.is_primary /\ others # {}
        THEN LET n == First(db, others)
                 r == Save(db, {}, n, [db[n] EXCEPT !.is_primary = TRUE], FALSE, FALSE)
             IN  IF r.error # "none"
                 THEN [error |-> r.error, db |-> r.db]
                 ELSE [error |-> "none", db |-> DeleteRow(r.db, pk)]
        ELSE [error |-> "none", db |-> DeleteRow(db, pk)]

\* ------------------------------------------------------------ HTTP handlers
\* 'current_count >= 10' in CarImageUploadView.post.
UploadLimit(current_count) == current_count >= MaxImages

\* Faulty variant of BulkLimit: the bulk check off by one.
BulkLimitOffByOne(total_count) == total_count > MaxImages + 1

\* 'total_count > 10' in CarImageBulkUploadView.post.
BulkLimit(total_count) == total_count > MaxImages

\* What a handler leaves behind: the table, the storage, the Response (status,
\* error, detail), and how many primary keys and file names it used up.
Result(db, fs, status, error, detail, npk, nfile) ==
    [db |-> db, files |-> fs, status |-> status, error |-> error,
     detail |-> detail, npk |-> npk, nfile |-> nfile]

\* The number of files of fs1 that fs does not hold.
Written(fs, fs1) == Cardinality(fs1 \ fs)

\* CarImageUploadView.post: pk and fname are the key and the file name the
\* database and the storage hand out next.
UploadPost(db, fs, pk, fname, car, hasFile, orderParam) ==
    LET current_count == Count(db, car)
    IN  IF UploadLimit(current_count)
        THEN Result(db, fs, 400, "max_images", <<>>, 0, 0)
        ELSE IF ~hasFile
        THEN Result(db, fs, 400, "no_file", <<>>, 0, 0)
        ELSE LET order == IF orderParam = <<>> THEN current_count + 1
                          ELSE orderParam[1]
                 is_primary == current_count = 0
                 r == Create(db, fs, pk, car, fname, is_primary, order)
             IN  IF r.error = "none"
                 THEN Result(r.db, r.files, 201, "none", <<pk>>, 1, 1)
                 ELSE Result(r.db, r.files, 500, r.error, <<>>, 0,
                             Written(fs, r.files))

\* The loop of CarImageBulkUploadView.post from index idx on; it stops at the
\* first create that raises.
RECURSIVE BulkLoop(_, _, _, _, _, _, _, _)
BulkLoop(db, fs, pk, fname, car, current_count, idx, n) ==
    IF idx = n
    THEN [error |-> "none", db |-> db, files |-> fs]
    ELSE LET is_primary == current_count = 0 /\ idx = 0
             order == current_count + idx + 1
             r == Create(db, fs, pk + idx, car, fname + idx, is_primary, order)
         IN  IF r.error # "none" THEN r
             ELSE BulkLoop(r.db, r.files, pk, fname, car, current_count, idx + 1, n)

\* Faulty variant of RolledBack: the block's writes survive the exception.
NotRolledBack(db, db1) == db1

\* 'with transaction.atomic()' left by an exception: of the table db before the
\* block and the table db1 the block wrote, db is what the database keeps.
RolledBack(db, db1) == db

\* CarImageBulkUploadView.post with n files.  An exception leaves
\* transaction.atomic() by rollback: the table is as before, the files stay.
BulkUploadPost(db, fs, pk, fname, car, n) ==
    IF n = 0
    THEN Result(db, fs, 400, "no_files", <<>>, 0, 0)
    ELSE LET current_count == Count(db, car)
             total_count == current_count + n
         IN  IF BulkLimit(total_count)
             THEN Result(db, fs, 400, "bulk_capacity", <<n, current_count>>, 0, 0)
             ELSE LET r == BulkLoop(db, fs, pk, fname, car, current_count, 0, n)
                  IN  IF r.error = "none"
                      THEN Result(r.db, r.files, 201, "none",
                                  [i \in 1 .. n |-> pk + i - 1], n, n)
                      ELSE Result(RolledBack(db, r.db), r.files, 500, r.error,
                                  <<>>, 0, Written(fs, r.files))

\* Faulty variant of ReplacePatch: the row is rebuilt from the model's defaults
\* (is_primary False, order 0) around the new file.
ReplacePatchFromDefaults(db, fs, fname, car, id, hasFile) ==
    IF ~Found(db, car, id)
    THEN Result(db, fs, 404, "not_found", <<>>, 0, 0)
    ELSE IF ~hasFile
    THEN Result(db, fs, 200, "none", <<id>>, 0, 0)
    ELSE LET fs1 == fs \ {db[id].image}
             r == Save(db, fs1, id,
                       [car |-> car, image |-> fname, is_primary |-> FALSE, order |-> 0],
                       FALSE, TRUE)
         IN  IF r.error = "none"
             THEN Result(r.db, r.files, 200, "none", <<id>>, 0, 1)
             ELSE Result(r.db, r.files, 500, r.error, <<>>, 0, Written(fs1, r.files))

\* CarImageDetailView.patch: with a new file, the old file is deleted from the
\* storage, then the instance is saved with the new one.
ReplacePatch(db, fs, fname, car, id, hasFile) ==
    IF ~Found(db, car, id)
    THEN Result(db, fs, 404, "not_found", <<>>, 0, 0)
    ELSE IF ~hasFile
    THEN Result(db, fs, 200, "none", <<id>>, 0, 0)
    ELSE LET image == db[id]
             fs1 == fs \ {image.image}
             r == Save(db, fs1, id, [image EXCEPT !.image = fname], FALSE, TRUE)
         IN  IF r.error = "none"
             THEN Result(r.db, r.files, 200, "none", <<id>>, 0, 1)
             ELSE Result(r.db, r.files, 500, r.error, <<>>, 0, Written(fs1, r.files))

\* CarImageDetailView.delete
DeleteView(db, fs, car, id) ==
    IF ~Found(db, car, id)
    THEN Result(db, fs, 404, "not_found", <<>>, 0, 0)
    ELSE LET r == Delete(db, id, db[id])
         IN  IF r.error = "none"
             THEN Result(r.db, fs, 204, "none", <<>>, 0, 0)
             ELSE Result(r.db, fs, 500, r.error, <<>>, 0, 0)

\* CarImageSetPrimaryView.patch
SetPrimaryPatch(db, fs, car, id) ==
    IF ~Found(db, car, id)
    THEN Result(db, fs, 404, "not_found", <<>>, 0, 0)
    ELSE LET image == db[id]
             db1 == UnsetPrimary(db, car, NoId)
             r == Save(db1, fs, id, [image EXCEPT !.is_primary = TRUE], FALSE, FALSE)
         IN  IF r.error = "none"
             THEN Result(r.db, fs, 200, "none", <<id>>, 0, 0)
             ELSE Result(r.db, fs, 500, r.error, <<>>, 0, 0)

\* The loop of CarImageReorderView.patch from item k on; it stops at the first
\* id that CarImage.objects.get does not find and at the first save that raises.
RECURSIVE ReorderLoop(_, _, _, _)
ReorderLoop(db, car, image_orders, k) ==
    IF k > Len(image_orders)
    THEN [error |-> "none", db |-> db, id |-> NoId]
    ELSE LET item == image_orders[k]
         IN  IF ~Found(db, car, item.id)
             THEN [error |-> "DoesNotExist", db |-> db, id |-> item.id]
             ELSE LET image == db[item.id]
                      r == Save(db, {}, item.id, [image EXCEPT !.order = item.order],
                                FALSE, FALSE)
                  IN  IF r.error # "none"
                      THEN [error |-> r.error, db |-> r.db, id |-> item.id]
                      ELSE ReorderLoop(r.db, car, image_orders, k + 1)

\* CarImageReorderView.patch.  The 404 is a return inside 'with
\* transaction.atomic()': the block is left without an exception, so what the
\* loop wrote is committed.  An exception rolls the block back.  The 200
\* Response lists car.images.all(): the ids of the car's images in Meta.ordering.
ReorderPatch(db, fs, car, image_orders) ==
    IF image_orders = <<>>
    THEN Result(db, fs, 400, "invalid", <<>>, 0, 0)
    ELSE LET r == ReorderLoop(db, car, image_orders, 1)
         IN  IF r.error = "none"
             THEN Result(r.db, fs, 200, "none",
                         Ordered(r.db, CarImages(r.db, car)), 0, 0)
             ELSE IF r.error = "DoesNotExist"
             THEN Result(r.db, fs, 404, "not_found", <<r.id>>, 0, 0)
             ELSE Result(RolledBack(db, r.db), fs, 500, r.error, <<>>, 0, 0)

\* ------------------------------------------------- one request at a time
\* The empty table: no CarImage row.
EmptyDb == [i \in {} |-> 0]

\* The workers that serve requests concurrently, each one request at a time.
Workers == {1, 2}

\* An instance not loaded yet.
NoObj == [car |-> 0, image |-> 0, is_primary |-> FALSE, order |-> 0]

\* A worker that serves no request.
Idle ==
    [op |-> "idle", pc |-> "idle", car |-> 0, arg |-> <<>>, current_count |-> 0,
     pk |-> NoId, obj |-> NoObj, old |-> 0, next |-> NoId, nobj |-> NoObj,
     status |-> 0, error |-> "none"]

\* The User table without a row (the gallery specifications model no account;
\* their requests carry the flags of request.user).
NoUsers == [u \in {} |-> 0]

\* No request served yet.
NoRequest ==
    [op |-> "none", car |-> 0, arg |-> <<>>, user |-> Anonymous, size |-> NoSize]

Init ==
    /\ images = EmptyDb
    /\ nextId = 1
    /\ files = {}
    /\ nextFile = 1
    /\ request = NoRequest
    /\ response = [status |-> 0, error |-> "none", detail |-> <<>>]
    /\ steps = 0
    /\ req = [w \in Workers |-> Idle]
    /\ users = NoUsers
    /\ nextUser = 1

\* permission_classes = [IsApprovedWorkerOrAdmin] of the five views: APIView
\* checks the permission before it calls the handler, whose result is r; a
\* user without it gets a 403 (401 when the authentication class of the
\* settings sends a WWW-Authenticate header) and the handler does not run.
CheckPermissions(user, db, fs, r) ==
    IF HasPermission(user) THEN r
    ELSE Result(db, fs, 403, "permission_denied", <<>>, 0, 0)

\* A request of user, whose (largest) file has the given size, is served: the
\* result of the permission check and of the handler becomes the state; the
\* request and its Response are recorded.
ServeFor(user, size, op, car, arg, r) ==
    LET a == CheckPermissions(user, images, files, r)
    IN  /\ images' = a.db
        /\ files' = a.files
        /\ nextId' = nextId + a.npk
        /\ nextFile' = nextFile + a.nfile
        /\ request' = [op |-> op, car |-> car, arg |-> arg, user |-> user,
                       size |-> size]
        /\ response' = [status |-> a.status, error |-> a.error, detail |-> a.detail]
        /\ steps' = steps + 1
        /\ UNCHANGED <<req, users, nextUser>>

\* A request of an admin, its files within the size limit.
Serve(op, car, arg, r) ==
    ServeFor(Admin, IF op \in {"upload", "bulk", "replace"} THEN MaxUploadSize ELSE NoSize,
             op, car, arg, r)

\* Image ids a caller puts in a URL.
UrlIds == NoId .. MaxReqId

\* POST /cars/<car_id>/images/
Upload ==
    /\ steps < MaxSteps
    /\ \E car \in Cars, hasFile \in BOOLEAN :
       \E orderParam \in IF hasFile THEN OrderParams ELSE {<<>>} :
          Serve("upload", car, orderParam,
                UploadPost(images, files, nextId, nextFile, car, hasFile, orderParam))

\* POST /cars/<car_id>/images/bulk/
BulkUpload ==
    /\ steps < MaxSteps
    /\ \E car \in Cars, n \in FileCounts :
          Serve("bulk", car, <<n>>,
                BulkUploadPost(images, files, nextId, nextFile, car, n))

\* PATCH /cars/<car_id>/images/<image_id>/
Replace ==
    /\ steps < MaxSteps
    /\ \E car \in Cars, id \in UrlIds, hasFile \in BOOLEAN :
          Serve("replace", car, <<id>>,
                ReplacePatch(images, files, nextFile, car, id, hasFile))

\* DELETE /cars/<car_id>/images/<image_id>/
DeleteImage ==
    /\ steps < MaxSteps
    /\ \E car \in Cars, id \in UrlIds :
          Serve("delete", car, <<id>>, DeleteView(images, files, car, id))

\* PATCH /cars/<car_id>/images/<image_id>/set-primary/
SetPrimary ==
    /\ steps < MaxSteps
    /\ \E car \in Cars, id \in UrlIds :
          Serve("set_primary", car, <<id>>, SetPrimaryPatch(images, files, car, id))

\* The body of a reorder request as the request record keeps it: the id and
\* the order of the first item, then those of the second.
Flat(image_orders) ==
    [k \in 1 .. 2 * Len(image_orders) |->
        IF k % 2 = 1 THEN image_orders[(k + 1) \div 2].id
        ELSE image_orders[k \div 2].order]

\* PATCH /cars/<car_id>/images/reorder/
Reorder ==
    /\ steps < MaxSteps
    /\ \E car \in Cars, image_orders \in ReorderPayloads :
          Serve("reorder", car, Flat(image_orders),
                ReorderPatch(images, files, car, image_orders))

Next == Upload \/ BulkUpload \/ Replace \/ DeleteImage \/ SetPrimary \/ Reorder

\* The six gallery endpoints, one request at a time.
Spec == Init /\ [][Next]_vars

\* ------------------------------------------------ the model layer, directly
\* CarImage.objects.create(car=, image=, is_primary=, order=) called by any
\* code but the two upload views (the admin, a shell, another app): every
\* argument is the caller's.  No Response: the exception, if any, is recorded,
\* and the request's arg is the order and the primary flag (1 or 0) asked for.
CreateImage ==
    /\ steps < MaxSteps
    /\ \E car \in Cars, is_primary \in BOOLEAN, order \in OrderInputs :
          LET r == Create(images, files, nextId, car, nextFile, is_primary, order)
              ok == r.error = "none"
          IN  Serve("create", car, <<order, IF is_primary THEN 1 ELSE 0>>,
                    Result(r.db, r.files, 0, r.error,
                           IF ok THEN <<nextId>> ELSE <<>>,
                           IF ok THEN 1 ELSE 0, Written(files, r.files)))

NextEngine == Next \/ CreateImage

\* The endpoints and direct calls of the model layer, one at a time.
SpecEngine == Init /\ [][NextEngine]_vars

\* ------------------------------------------------ any user, any file size
\* One request fewer is served than in the specification of the admin.
ApiSteps == MaxSteps - 1

\* POST /cars/<car_id>/images/ by any user
ApiUpload ==
    /\ steps < ApiSteps
    /\ \E user \in Users, car \in Cars, hasFile \in BOOLEAN :
       \E orderParam \in IF hasFile THEN OrderParams ELSE {<<>>},
          size \in IF hasFile THEN FileSizes ELSE {NoSize} :
          ServeFor(user, size, "upload", car, orderParam,
                   UploadPost(images, files, nextId, nextFile, car, hasFile, orderParam))

\* POST /cars/<car_id>/images/bulk/ by any user
ApiBulkUpload ==
    /\ steps < ApiSteps
    /\ \E user \in Users, car \in Cars, n \in FileCounts :
       \E size \in IF n > 0 THEN FileSizes ELSE {NoSize} :
          ServeFor(user, size, "bulk", car, <<n>>,
                   BulkUploadPost(images, files, nextId, nextFile, car, n))

\* PATCH /cars/<car_id>/images/<image_id>/ by any user
ApiReplace ==
    /\ steps < ApiSteps
    /\ \E user \in Users, car \in Cars, id \in UrlIds, hasFile \in BOOLEAN :
       \E size \in IF hasFile THEN FileSizes ELSE {NoSize} :
          ServeFor(user, size, "replace", car, <<id>>,
                   ReplacePatch(images, files, nextFile, car, id, hasFile))

\* DELETE /cars/<car_id>/images/<image_id>/ by any user
ApiDeleteImage ==
    /\ steps < ApiSteps
    /\ \E user \in Users, car \in Cars, id \in UrlIds :
          ServeFor(user, NoSize, "delete", car, <<id>>,
                   DeleteView(images, files, car, id))

\* PATCH /cars/<car_id>/images/<image_id>/set-primary/ by any user
ApiSetPrimary ==
    /\ steps < ApiSteps
    /\ \E user \in Users, car \in Cars, id \in UrlIds :
          ServeFor(user, NoSize, "set_primary", car, <<id>>,
                   SetPrimaryPatch(images, files, car, id))

\* Reorder payloads of at most one item.
ApiPayloads == {p \in ReorderPayloads : Len(p) <= 1}

\* PATCH /cars/<car_id>/images/reorder/ by any user
ApiReorder ==
    /\ steps < ApiSteps
    /\ \E user \in Users, car \in Cars, image_orders \in ApiPayloads :
          ServeFor(user, NoSize, "reorder", car, Flat(image_orders),
                   ReorderPatch(images, files, car, image_orders))

NextApi ==
    ApiUpload \/ ApiBulkUpload \/ ApiReplace \/ ApiDeleteImage \/ ApiSetPrimary
        \/ ApiReorder

\* The six gallery endpoints, one request at a time, requested by any user
\* with files of any size.
SpecApi == Init /\ [][NextApi]_vars

\* ------------------------------------------------------- the user lifecycle
\* Number of requests served in one behaviour of the user lifecycle.
MaxUserSteps == 4

\* Largest number of User rows ever created.
MaxUsers == 3

\* user_id values a caller sends: NoId names no user.
UserIds == NoId .. MaxUsers

\* IsAdmin.has_permission
IsAdmin(user) == user.is_authenticated /\ user.is_staff

\* request.user of a request authenticated as the user u of the table tbl;
\* NoId is a request without credentials.
Actor(tbl, u) ==
    IF u = NoId THEN Anonymous
    ELSE [is_authenticated |-> TRUE, is_staff |-> tbl[u].is_staff,
          is_approved |-> tbl[u].is_approved]

\* User.objects.create_user(..., is_approved=is_approved): the new row.  The
\* manager leaves is_staff at False: a user who registers is a worker, an
\* admin only by promotion.
CreateUser(is_approved) == [is_staff |-> FALSE, is_approved |-> is_approved]

\* What a handler of the users app leaves behind: the table, the Response,
\* and how many primary keys it used up.
UserResult(tbl, status, error, npk) ==
    [tbl |-> tbl, status |-> status, error |-> error, npk |-> npk]

\* RegisterView.create: valid says that UserRegistrationSerializer accepts the
\* data (passwords match, the email is free); pk is the key of the new row.
RegisterCreate(tbl, pk, valid) ==
    IF ~valid THEN UserResult(tbl, 400, "invalid", 0)
    ELSE UserResult([u \in DOMAIN tbl \cup {pk} |->
                        IF u = pk THEN CreateUser(FALSE) ELSE tbl[u]],
                    201, "none", 1)

\* ApproveUserSerializer.validate_user_id
ApproveValid(tbl, user_id) == user_id \in DOMAIN tbl /\ ~tbl[user_id].is_staff

\* ApproveWorkerView.post: approve sets is_approved, reject deletes the user.
ApprovePost(tbl, user_id, approve) ==
    IF ~ApproveValid(tbl, user_id) THEN UserResult(tbl, 400, "invalid", 0)
    ELSE IF approve
    THEN UserResult([tbl EXCEPT ![user_id].is_approved = TRUE], 200, "none", 0)
    ELSE UserResult([u \in DOMAIN tbl \ {user_id} |-> tbl[u]], 200, "none", 0)

\* Faulty variant of PromoteValid: a check of existence only.
PromoteValidAnyUser(tbl, user_id) == user_id \in DOMAIN tbl

\* PromoteToAdminSerializer.validate_user_id
PromoteValid(tbl, user_id) ==
    /\ user_id \in DOMAIN tbl
    /\ ~tbl[user_id].is_staff
    /\ tbl[user_id].is_approved

\* PromoteToAdminView.post
PromotePost(tbl, user_id) ==
    IF ~PromoteValid(tbl, user_id) THEN UserResult(tbl, 400, "invalid", 0)
    ELSE UserResult([tbl EXCEPT ![user_id].is_staff = TRUE], 200, "none", 0)

\* UserAdmin.approve_workers and disapprove_workers on the selected rows:
\* queryset.filter(is_staff=False).update(is_approved=value)
ApproveWorkers(tbl, queryset, value) ==
    UserResult([u \in DOMAIN tbl |->
                   IF u \in queryset /\ ~tbl[u].is_staff
                   THEN [tbl[u] EXCEPT !.is_approved = value]
                   ELSE tbl[u]],
               200, "none", 0)

\* UserChangeForm saved for the row user_id: is_staff and is_approved are
\* fields of the form.
ChangeUser(tbl, user_id, is_staff, is_approved) ==
    IF user_id \notin DOMAIN tbl THEN UserResult(tbl, 404, "not_found", 0)
    ELSE UserResult([tbl EXCEPT ![user_id] =
                        [is_staff |-> is_staff, is_approved |-> is_approved]],
                    200, "none", 0)

\* The ids of S in ascending order.
RECURSIVE Ascending(_)
Ascending(S) ==
    IF S = {} THEN <<>>
    ELSE LET i == CHOOSE i \in S : \A j \in S : i <= j
         IN  <<i>> \o Ascending(S \ {i})

\* A deployment with one superuser (createsuperuser), approved or not.
InitUsers ==
    /\ images = EmptyDb
    /\ nextId = 1
    /\ files = {}
    /\ nextFile = 1
    /\ request = NoRequest
    /\ response = [status |-> 0, error |-> "none", detail |-> <<>>]
    /\ steps = 0
    /\ req = [w \in Workers |-> Idle]
    /\ \E is_approved \in BOOLEAN :
          users = [u \in {1} |-> [is_staff |-> TRUE, is_approved |-> is_approved]]
    /\ nextUser = 2

\* A request of the users app or of the admin site by the user actor (NoId:
\* without credentials) is served: allowed says whether the permission class
\* of the view lets the actor in, r is the result of the handler.
ServeUser(actor, allowed, op, arg, r) ==
    LET a == IF allowed THEN r ELSE UserResult(users, 403, "permission_denied", 0)
    IN  /\ users' = a.tbl
        /\ nextUser' = nextUser + a.npk
        /\ request' = [op |-> op, car |-> 0, arg |-> arg,
                       user |-> Actor(users, actor), size |-> NoSize]
        /\ response' = [status |-> a.status, error |-> a.error, detail |-> <<>>]
        /\ steps' = steps + 1
        /\ UNCHANGED <<images, nextId, files, nextFile, req>>

\* The users who send requests: anyone without credentials, and the users of
\* the table.
Actors == {NoId} \cup DOMAIN users

\* POST /register/ (AllowAny)
Register ==
    /\ steps < MaxUserSteps
    /\ nextUser <= MaxUsers
    /\ \E actor \in Actors, valid \in BOOLEAN :
          ServeUser(actor, TRUE, "register", <<>>,
                    RegisterCreate(users, nextUser, valid))

\* POST /approve/ (IsAdmin)
Approve ==
    /\ steps < MaxUserSteps
    /\ \E actor \in Actors, user_id \in UserIds, approve \in BOOLEAN :
          ServeUser(actor, IsAdmin(Actor(users, actor)), "approve",
                    <<user_id, IF approve THEN 1 ELSE 0>>,
                    ApprovePost(users, user_id, approve))

\* POST /promote/ (IsAdmin)
Promote ==
    /\ steps < MaxUserSteps
    /\ \E actor \in Actors, user_id \in UserIds :
          ServeUser(actor, IsAdmin(Actor(users, actor)), "promote", <<user_id>>,
                    PromotePost(users, user_id))

\* The admin actions 'Approve selected workers' and 'Disapprove selected
\* workers' (the admin site lets staff in).
AdminApproveWorkers ==
    /\ steps < MaxUserSteps
    /\ \E actor \in Actors, queryset \in SUBSET DOMAIN users, value \in BOOLEAN :
          ServeUser(actor, IsAdmin(Actor(users, actor)),
                    IF value THEN "approve_workers" ELSE "disapprove_workers",
                    Ascending(queryset), ApproveWorkers(users, queryset, value))

\* The change form of the admin site (the admin site lets staff in).
AdminChangeUser ==
    /\ steps < MaxUserSteps
    /\ \E actor \in Actors, user_id \in UserIds, is_staff, is_approved \in BOOLEAN :
          ServeUser(actor, IsAdmin(Actor(users, actor)), "change_user",
                    <<user_id, IF is_staff THEN 1 ELSE 0, IF is_approved THEN 1 ELSE 0>>,
                    ChangeUser(users, user_id, is_staff, is_approved))

NextUsers ==
    Register \/ Approve \/ Promote \/ AdminApproveWorkers \/ AdminChangeUser

\* The user lifecycle: registration, approval and rejection, promotion, and
\* the admin site's actions and change form, one request at a time.
SpecUsers == InitUsers /\ [][NextUsers]_vars

\* ------------------------------------------------------ concurrent requests
\* Two workers, each serving one request; a step is one database statement
\* (autocommit: no handler but the bulk upload and the reorder opens a
\* transaction, and CarImage.save opens none).  The 'with transaction.atomic()'
\* block of the bulk upload is one step: it runs as if alone.

\* Numbers of images the car 1 holds when the workers start.
SeedCounts == {0, 2, MaxImages - 2, MaxImages - 1, MaxImages}

\* The table and the storage after a bulk upload of k files to car 1.
Seeded(k) == BulkUploadPost(EmptyDb, {}, 1, 1, 1, k)

\* A gallery of three images on car 1: A, B, C are the images 1, 2, 3 with the
\* orders 1, 2, 3, and A is the primary image.
InitGallery ==
    /\ images = Seeded(3).db
    /\ files = Seeded(3).files
    /\ nextId = 1 + Seeded(3).npk
    /\ nextFile = 1 + Seeded(3).nfile
    /\ request = NoRequest
    /\ response = [status |-> 0, error |-> "none", detail |-> <<>>]
    /\ steps = 0
    /\ req = [w \in Workers |-> Idle]
    /\ users = NoUsers
    /\ nextUser = 1

\* The six gallery endpoints, one request at a time, on that gallery.
SpecGallery == InitGallery /\ [][Next]_vars

\* The ways the is_primary flags of a gallery of three images can be wrong:
\* no primary image, or several (left behind by a failed create on a full car
\* and by concurrent set-primary requests).
CorruptFlags ==
    {f \in [1 .. 3 -> BOOLEAN] : Cardinality({i \in 1 .. 3 : f[i]}) # 1}

\* The gallery of three images on car 1 with wrong is_primary flags; the
\* requests that left it count as served, two more are served.
InitCorrupt ==
    /\ \E f \in CorruptFlags :
          images = [i \in 1 .. 3 |-> [Seeded(3).db[i] EXCEPT !.is_primary = f[i]]]
    /\ files = Seeded(3).files
    /\ nextId = 1 + Seeded(3).npk
    /\ nextFile = 1 + Seeded(3).nfile
    /\ request = NoRequest
    /\ response = [status |-> 0, error |-> "none", detail |-> <<>>]
    /\ steps = MaxSteps - 2
    /\ req = [w \in Workers |-> Idle]
    /\ users = NoUsers
    /\ nextUser = 1

\* The six gallery endpoints, one request at a time, on that gallery.
SpecCorrupt == InitCorrupt /\ [][Next]_vars

InitConc ==
    /\ \E k \in SeedCounts :
          /\ images = Seeded(k).db
          /\ files = Seeded(k).files
          /\ nextId = 1 + Seeded(k).npk
          /\ nextFile = 1 + Seeded(k).nfile
    /\ request = NoRequest
    /\ response = [status |-> 0, error |-> "none", detail |-> <<>>]
    /\ steps = 0
    /\ req = [w \in Workers |-> Idle]
    /\ users = NoUsers
    /\ nextUser = 1

\* Worker w goes on: its record changes as given.
Goto(w, r) == req' = [req EXCEPT ![w] = r]

\* Worker w returns a Response.
Done(w, status, error) ==
    Goto(w, [req[w] EXCEPT !.pc = "done", !.status = status, !.error = error])

\* CarImageUploadView.post up to CarImage.objects.create: the count, the
\* capacity test, the order and the primary flag of the new instance.
UploadStart(w) ==
    /\ req[w].pc = "idle"
    /\ \E car \in Cars, orderParam \in OrderParams :
          LET current_count == Count(images, car)
              order == IF orderParam = <<>> THEN current_count + 1 ELSE orderParam[1]
              r == [Idle EXCEPT !.op = "upload", !.car = car, !.arg = orderParam,
                                !.current_count = current_count]
          IN  IF UploadLimit(current_count)
              THEN Goto(w, [r EXCEPT !.pc = "done", !.status = 400,
                                     !.error = "max_images"])
              ELSE Goto(w, [r EXCEPT !.pc = "save_first",
                                     !.obj = [car |-> car, image |-> 0,
                                              is_primary |-> current_count = 0,
                                              order |-> order]])
    /\ UNCHANGED <<images, nextId, files, nextFile, request, response, steps, users, nextUser>>

\* CarImage.save, new instance: 'if not self.pk and not self.car.images.exists()'.
SaveFirst(w) ==
    /\ req[w].pc = "save_first"
    /\ LET obj == IF FirstImage(images, req[w].car)
                  THEN [req[w].obj EXCEPT !.is_primary = TRUE, !.order = 1]
                  ELSE req[w].obj
       IN  Goto(w, [req[w] EXCEPT !.obj = obj,
                       !.pc = IF obj.is_primary THEN "save_unset" ELSE "save_full"])
    /\ UNCHANGED <<images, nextId, files, nextFile, request, response, steps, users, nextUser>>

\* CarImage.save: the update() that unsets the other primary images.
SaveUnset(w) ==
    /\ req[w].pc = "save_unset"
    /\ images' = UnsetPrimary(images, req[w].car, req[w].pk)
    /\ Goto(w, [req[w] EXCEPT
                   !.pc = IF req[w].pk = NoId THEN "save_full" ELSE "save_write"])
    /\ UNCHANGED <<nextId, files, nextFile, request, response, steps, users, nextUser>>

\* CarImage.save, new instance: the count and the capacity test.
SaveFull(w) ==
    /\ req[w].pc = "save_full"
    /\ IF Full(images, req[w].car)
       THEN Done(w, 500, "ValueError")
       ELSE Goto(w, [req[w] EXCEPT !.pc = "save_write"])
    /\ UNCHANGED <<images, nextId, files, nextFile, request, response, steps, users, nextUser>>

\* CarImage.save: super().save().  A new instance stores its file and is
\* inserted under the next key; a loaded one is updated, and inserted again
\* under its key when the row is gone.  The instance of a replace request
\* carries an uploaded file, which is stored before the row is written.
SaveWrite(w) ==
    /\ req[w].pc = "save_write"
    /\ LET adding == req[w].pk = NoId
           write == adding \/ req[w].op = "replace"
           pk == IF adding THEN nextId ELSE req[w].pk
           obj == IF write THEN [req[w].obj EXCEPT !.image = nextFile]
                  ELSE req[w].obj
           ok == Constraints(images, pk, obj.car, obj.order)
       IN  /\ files' = IF write THEN files \cup {nextFile} ELSE files
           /\ nextFile' = IF write THEN nextFile + 1 ELSE nextFile
           /\ images' = IF ok THEN PutRow(images, pk, obj) ELSE images
           /\ nextId' = IF ok /\ adding THEN nextId + 1 ELSE nextId
           /\ IF ok
              THEN Goto(w, [req[w] EXCEPT !.pc = "done", !.pk = pk, !.obj = obj,
                               !.status = IF adding THEN 201 ELSE 200])
              ELSE Done(w, 500, "IntegrityError")
    /\ UNCHANGED <<request, response, steps, users, nextUser>>

\* CarImageBulkUploadView.post up to the atomic block: the count and the
\* capacity test.
BulkStart(w) ==
    /\ req[w].pc = "idle"
    /\ \E car \in Cars, n \in FileCounts \ {0} :
          LET current_count == Count(images, car)
              r == [Idle EXCEPT !.op = "bulk", !.car = car, !.arg = <<n>>,
                                !.current_count = current_count]
          IN  IF BulkLimit(current_count + n)
              THEN Goto(w, [r EXCEPT !.pc = "done", !.status = 400,
                                     !.error = "bulk_capacity"])
              ELSE Goto(w, [r EXCEPT !.pc = "bulk_atomic"])
    /\ UNCHANGED <<images, nextId, files, nextFile, request, response, steps, users, nextUser>>

\* The atomic block of CarImageBulkUploadView.post, with the count read before.
BulkAtomic(w) ==
    /\ req[w].pc = "bulk_atomic"
    /\ LET n == req[w].arg[1]
           r == BulkLoop(images, files, nextId, nextFile, req[w].car,
                         req[w].current_count, 0, n)
           ok == r.error = "none"
       IN  /\ images' = IF ok THEN r.db ELSE images
           /\ files' = r.files
           /\ nextId' = IF ok THEN nextId + n ELSE nextId
           /\ nextFile' = nextFile + Written(files, r.files)
           /\ Done(w, IF ok THEN 201 ELSE 500, r.error)
    /\ UNCHANGED <<request, response, steps, users, nextUser>>

\* CarImageSetPrimaryView.patch: get_object_or_404 loads the instance.
PrimaryGet(w) ==
    /\ req[w].pc = "idle"
    /\ \E car \in Cars, id \in UrlIds :
          LET r == [Idle EXCEPT !.op = "set_primary", !.car = car, !.arg = <<id>>]
          IN  IF ~Found(images, car, id)
              THEN Goto(w, [r EXCEPT !.pc = "done", !.status = 404,
                                     !.error = "not_found"])
              ELSE Goto(w, [r EXCEPT !.pc = "primary_unset", !.pk = id,
                                     !.obj = images[id]])
    /\ UNCHANGED <<images, nextId, files, nextFile, request, response, steps, users, nextUser>>

\* CarImageSetPrimaryView.patch: the update() that unsets the current primary,
\* then 'image.is_primary = True' and the call of image.save().
PrimaryUnset(w) ==
    /\ req[w].pc = "primary_unset"
    /\ images' = UnsetPrimary(images, req[w].car, NoId)
    /\ Goto(w, [req[w] EXCEPT !.obj.is_primary = TRUE, !.pc = "save_unset"])
    /\ UNCHANGED <<nextId, files, nextFile, request, response, steps, users, nextUser>>

\* CarImageDetailView.patch: get_object_or_404 loads the instance; without a
\* new file the handler returns it as it is.  old is the name of the file the
\* instance references when it is loaded.
ReplaceGet(w) ==
    /\ req[w].pc = "idle"
    /\ \E car \in Cars, id \in UrlIds, hasFile \in BOOLEAN :
          LET r == [Idle EXCEPT !.op = "replace", !.car = car, !.arg = <<id>>]
          IN  IF ~Found(images, car, id)
              THEN Goto(w, [r EXCEPT !.pc = "done", !.status = 404,
                                     !.error = "not_found"])
              ELSE IF ~hasFile
              THEN Goto(w, [r EXCEPT !.pc = "done", !.status = 200, !.pk = id,
                                     !.obj = images[id]])
              ELSE Goto(w, [r EXCEPT !.pc = "replace_release", !.pk = id,
                                     !.obj = images[id], !.old = images[id].image])
    /\ UNCHANGED <<images, nextId, files, nextFile, request, response, steps, users, nextUser>>

\* CarImageDetailView.patch: 'image.image.delete(save=False)' removes the old
\* file from the storage; then 'image.image = new_image' and the call of
\* image.save().
ReplaceRelease(w) ==
    /\ req[w].pc = "replace_release"
    /\ files' = files \ {req[w].obj.image}
    /\ Goto(w, [req[w] EXCEPT
                   !.pc = IF req[w].obj.is_primary THEN "save_unset" ELSE "save_write"])
    /\ UNCHANGED <<images, nextId, nextFile, request, response, steps, users, nextUser>>

\* CarImageDetailView.delete: get_object_or_404 loads the instance.
DeleteGet(w) ==
    /\ req[w].pc = "idle"
    /\ \E car \in Cars, id \in UrlIds :
          LET r == [Idle EXCEPT !.op = "delete", !.car = car, !.arg = <<id>>]
          IN  IF ~Found(images, car, id)
              THEN Goto(w, [r EXCEPT !.pc = "done", !.status = 404,
                                     !.error = "not_found"])
              ELSE Goto(w, [r EXCEPT !.pc = "delete_first", !.pk = id,
                                     !.obj = images[id]])
    /\ UNCHANGED <<images, nextId, files, nextFile, request, response, steps, users, nextUser>>

\* CarImage.delete: 'if self.is_primary' on the loaded instance, the query
\* 'self.car.images.exclude(pk=self.pk).first()', and 'next_image.is_primary =
\* True' on the instance it returns.
DeleteFirst(w) ==
    /\ req[w].pc = "delete_first"
    /\ LET others == CarImages(images, req[w].car) \ {req[w].pk}
       IN  IF req[w].obj.is_primary /\ others # {}
           THEN LET n == First(images, others)
                IN  Goto(w, [req[w] EXCEPT !.pc = "delete_unset", !.next = n,
                                !.nobj = [images[n] EXCEPT !.is_primary = TRUE]])
           ELSE Goto(w, [req[w] EXCEPT !.pc = "delete_row"])
    /\ UNCHANGED <<images, nextId, files, nextFile, request, response, steps, users, nextUser>>

\* CarImage.delete, next_image.save(): the update() that unsets the other
\* primary images.
DeleteUnset(w) ==
    /\ req[w].pc = "delete_unset"
    /\ images' = UnsetPrimary(images, req[w].car, req[w].next)
    /\ Goto(w, [req[w] EXCEPT !.pc = "delete_promote"])
    /\ UNCHANGED <<nextId, files, nextFile, request, response, steps, users, nextUser>>

\* CarImage.delete, next_image.save(): super().save() of the promoted image.
DeletePromote(w) ==
    /\ req[w].pc = "delete_promote"
    /\ LET ok == Constraints(images, req[w].next, req[w].nobj.car, req[w].nobj.order)
       IN  /\ images' = IF ok THEN PutRow(images, req[w].next, req[w].nobj) ELSE images
           /\ IF ok THEN Goto(w, [req[w] EXCEPT !.pc = "delete_row"])
              ELSE Done(w, 500, "IntegrityError")
    /\ UNCHANGED <<nextId, files, nextFile, request, response, steps, users, nextUser>>

\* CarImage.delete: super().delete() removes the row, if it is still there.
DeleteRemove(w) ==
    /\ req[w].pc = "delete_row"
    /\ images' = DeleteRow(images, req[w].pk)
    /\ Done(w, 204, "none")
    /\ UNCHANGED <<nextId, files, nextFile, request, response, steps, users, nextUser>>

\* CarImageReorderView.patch with one item: inside the atomic block,
\* CarImage.objects.get loads the instance (a miss returns the 404) and
\* 'image.order = item['order']' is assigned.
ReorderGet(w) ==
    /\ req[w].pc = "idle"
    /\ \E car \in Cars, item \in ReorderItems :
          LET r == [Idle EXCEPT !.op = "reorder", !.car = car,
                                !.arg = <<item.id, item.order>>]
          IN  IF ~Found(images, car, item.id)
              THEN Goto(w, [r EXCEPT !.pc = "done", !.status = 404,
                                     !.error = "not_found"])
              ELSE Goto(w, [r EXCEPT !.pc = "reorder_save", !.pk = item.id,
                                     !.obj = [images[item.id] EXCEPT !.order = item.order]])
    /\ UNCHANGED <<images, nextId, files, nextFile, request, response, steps, users, nextUser>>

\* CarImageReorderView.patch with one item: image.save() and the end of the
\* atomic block.  The writes of the block become visible together when it
\* commits; an exception rolls them back.
ReorderSave(w) ==
    /\ req[w].pc = "reorder_save"
    /\ LET r == Save(images, files, req[w].pk, req[w].obj, FALSE, FALSE)
       IN  /\ images' = IF r.error = "none" THEN r.db ELSE RolledBack(images, r.db)
           /\ IF r.error = "none" THEN Done(w, 200, "none")
              ELSE Done(w, 500, r.error)
    /\ UNCHANGED <<nextId, files, nextFile, request, response, steps, users, nextUser>>

NextConc ==
    \E w \in Workers :
        \/ UploadStart(w)
        \/ SaveFirst(w)
        \/ SaveUnset(w)
        \/ SaveFull(w)
        \/ SaveWrite(w)
        \/ BulkStart(w)
        \/ BulkAtomic(w)
        \/ PrimaryGet(w)
        \/ PrimaryUnset(w)
        \/ ReplaceGet(w)
        \/ ReplaceRelease(w)
        \/ DeleteGet(w)
        \/ DeleteFirst(w)
        \/ DeleteUnset(w)
        \/ DeletePromote(w)
        \/ DeleteRemove(w)
        \/ ReorderGet(w)
        \/ ReorderSave(w)

\* Two requests of the six endpoints, served concurrently on a seeded gallery
\* (a reorder request carries one item).
SpecConc == InitConc /\ [][NextConc]_vars

\* Every worker has returned its Response.
AllDone == \A w \in Workers : req[w].pc = "done"

\* The request of worker w fails where it stands (the process dies, the
\* database connection is lost): no statement after this point runs.  Outside
\* an atomic block, the statements that ran stay.
Fail(w) ==
    /\ req[w].pc \notin {"idle", "done"}
    /\ Done(w, 500, "failure")
    /\ UNCHANGED <<images, nextId, files, nextFile, request, response, steps, users, nextUser>>

NextFail == NextConc \/ \E w \in Workers : Fail(w)

\* The concurrent requests, each of which may fail between two statements.
SpecFail == InitConc /\ [][NextFail]_vars

\* ================================================================== claims
\* The images of a car, counted from the table directly.
ImagesOf(car) == {i \in DOMAIN images : images[i].car = car}

ImagesAfter(car) == {i \in DOMAIN images' : images'[i].car = car}

PrimariesOf(car) == {i \in ImagesOf(car) : images[i].is_primary}

PrimariesAfter(car) == {i \in ImagesAfter(car) : images'[i].is_primary}

\* C1: after any sequence of gallery requests served one at a time, no car
\* has more than 10 images.
C1_AtMostTenImages == \A car \in Cars : Cardinality(ImagesOf(car)) <= MaxImages

\* C1 witness: a successful upload has filled a car to exactly 10 images.
C1_Witness ==
    /\ request.op \in {"upload", "bulk"}
    /\ response.status = 201
    /\ Cardinality(ImagesOf(request.car)) = MaxImages

\* C2: in every state between requests, a car with images has exactly one
\* primary image and a car without images has none.
C2_ExactlyOnePrimary ==
    \A car \in Cars :
        IF ImagesOf(car) = {}
        THEN PrimariesOf(car) = {}
        ELSE Cardinality(PrimariesOf(car)) = 1

\* C2 witness: set-primary has moved the flag to image 2 of a car with
\* several images.
C2_Witness ==
    /\ request.op = "set_primary"
    /\ response.status = 200
    /\ request.arg = <<2>>
    /\ Cardinality(ImagesOf(request.car)) >= 2
    /\ images[2].is_primary

\* C3: between requests, no two images of one car have the same order.
C3_UniqueOrder ==
    \A i, j \in DOMAIN images :
        (i # j /\ images[i].car = images[j].car) => images[i].order # images[j].order

\* C3 witness: after a deletion, an upload without 'order' asked for the order
\* count + 1, which a remaining image holds; the table took no duplicate.
C3_Witness ==
    /\ request.op = "upload"
    /\ request.arg = <<>>
    /\ response.error = "IntegrityError"
    /\ Cardinality(DOMAIN images) < nextId - 1
    /\ \E i \in ImagesOf(request.car) :
          images[i].order = Cardinality(ImagesOf(request.car)) + 1

\* C4: a create on a car without images yields a primary image of order 1,
\* whatever order and primary flag were asked for.
C4_FirstImagePrimaryOrderOne ==
    [][(/\ request'.op \in {"upload", "bulk", "create"}
        /\ response'.error = "none"
        /\ response'.detail # <<>>
        /\ ImagesOf(request'.car) = {})
       => (/\ nextId \in DOMAIN images'
           /\ images'[nextId].car = request'.car
           /\ images'[nextId].is_primary
           /\ images'[nextId].order = 1)]_vars

\* C4 witness: the model layer was asked for a non-primary image of order 0
\* on a car without images, and created the car's only image.
C4_Witness ==
    /\ request.op = "create"
    /\ request.arg = <<0, 0>>
    /\ response.error = "none"
    /\ response.detail # <<>>
    /\ ImagesOf(request.car) = {response.detail[1]}
    /\ \A i \in ImagesOf(request.car) : images[i].is_primary /\ images[i].order = 1

\* C5: deleting the primary image leaves exactly one primary image, another
\* one, when the car has other images, and none when it was the only image.
C5_DeletePrimaryPromotes ==
    [][(/\ request'.op = "delete"
        /\ response'.status = 204
        /\ request'.arg[1] \in PrimariesOf(request'.car))
       => (/\ request'.arg[1] \notin DOMAIN images'
           /\ IF ImagesAfter(request'.car) = {}
              THEN PrimariesAfter(request'.car) = {}
              ELSE Cardinality(PrimariesAfter(request'.car)) = 1)]_vars

\* C5 witness: the second request deleted image 1, the primary image of a car
\* that keeps other images, and one of those is primary now.
C5_Witness ==
    /\ steps = 2
    /\ request.op = "delete"
    /\ request.arg = <<1>>
    /\ response.status = 204
    /\ ImagesOf(request.car) # {}
    /\ Cardinality(PrimariesOf(request.car)) = 1

\* C6 (as claimed): a create on a car that has 10 images fails with the capacity
\* error and changes no row, also when the new image is asked to be primary.
C6_FullCreateChangesNothing ==
    [][(/\ request'.op \in {"upload", "create"}
        /\ Cardinality(ImagesOf(request'.car)) = MaxImages)
       => (/\ response'.error \in {"max_images", "ValueError"}
           /\ images' = images)]_vars

\* C7: a bulk upload of n files onto c images with c + n > 10 is rejected as a
\* whole, the error reporting n and c: no row and no file is created.
C7_BulkOverCapacityRejected ==
    [][(/\ request'.op = "bulk"
        /\ request'.arg[1] >= 1
        /\ Cardinality(ImagesOf(request'.car)) + request'.arg[1] > MaxImages)
       => (/\ response'.status = 400
           /\ response'.error = "bulk_capacity"
           /\ response'.detail = <<request'.arg[1], Cardinality(ImagesOf(request'.car))>>
           /\ images' = images
           /\ files' = files
           /\ nextId' = nextId)]_vars

\* C7 witness: 6 files onto a car with 5 images were rejected, reporting 6 and 5.
C7_Witness ==
    /\ request.op = "bulk"
    /\ request.arg = <<6>>
    /\ response.error = "bulk_capacity"
    /\ response.detail = <<6, 5>>
    /\ Cardinality(ImagesOf(request.car)) = 5

\* C8 (as claimed): a reorder naming an id that is no image of the car fails
\* with NotFound naming the id, and changes no order.
C8_ReorderAllOrNothing ==
    [][(/\ request'.op = "reorder"
        /\ response'.status = 404)
       => (/\ response'.error = "not_found"
           /\ Len(response'.detail) = 1
           /\ images' = images)]_vars

\* C9 (as claimed): however two concurrent uploads (single or bulk, with the
\* default or a given order) interleave, once both have returned no car has
\* more than 10 images.
C9_ConcurrentCreatesAtMostTen ==
    (AllDone /\ \A w \in Workers : req[w].op \in {"upload", "bulk"})
        => \A car \in Cars : Cardinality(ImagesOf(car)) <= MaxImages

\* C10 (as claimed): however two concurrent set-primary requests on different
\* images of a car interleave, once both have returned the car has no two
\* primary images.
C10_ConcurrentSetPrimaryOnePrimary ==
    (/\ AllDone
     /\ \A w \in Workers : req[w].op = "set_primary"
     /\ \A v, w \in Workers : v # w => req[v].arg # req[w].arg)
        => \A car \in Cars : Cardinality(PrimariesOf(car)) <= 1

\* C11 (as claimed): on the gallery A, B, C (images 1, 2, 3), after A was
\* deleted and a reorder gave B the order 1 and C the order 2, the reorder
\* [{B, 2}, {C, 1}] succeeds: B and C swap their orders, the gallery returned
\* lists C before B, and no image's is_primary flag changes.
C11_SwapAfterDelete ==
    [][(/\ steps = 2
        /\ request.op = "reorder"
        /\ request.car = 1
        /\ request.arg = <<2, 1, 3, 2>>
        /\ response.status = 200
        /\ ImagesOf(1) = {2, 3}
        /\ request'.op = "reorder"
        /\ request'.car = 1
        /\ request'.arg = <<2, 2, 3, 1>>)
       => (/\ response'.status = 200
           /\ images'[2].order = 2
           /\ images'[3].order = 1
           /\ response'.detail = <<3, 2>>
           /\ \A i \in {2, 3} : images'[i].is_primary = images[i].is_primary)]_vars

\* C12 (as claimed): on a car with 1 to 9 images, an upload of a file without an
\* 'order' field succeeds and creates a non-primary image whose order is the
\* number of images the car had plus 1.
C12_DefaultOrderCountPlusOne ==
    [][(/\ request'.op = "upload"
        /\ request'.arg = <<>>
        /\ response'.error # "no_file"
        /\ Cardinality(ImagesOf(request'.car)) \in 1 .. (MaxImages - 1))
       => (/\ response'.status = 201
           /\ nextId \in DOMAIN images'
           /\ images'[nextId].car = request'.car
           /\ ~images'[nextId].is_primary
           /\ images'[nextId].order = Cardinality(ImagesOf(request'.car)) + 1)]_vars

\* C13: a replace request changes no image's id, car, order or is_primary, and
\* changes nothing at all of any image but the one it names.
C13_ReplaceChangesOnlyBlob ==
    [][(request'.op = "replace")
       => (/\ DOMAIN images' = DOMAIN images
           /\ \A i \in DOMAIN images :
                 /\ images'[i].car = images[i].car
                 /\ images'[i].order = images[i].order
                 /\ images'[i].is_primary = images[i].is_primary
                 /\ i # request'.arg[1] => images'[i] = images[i])]_vars

\* C13 witness: the file of a primary image that has siblings was replaced; the
\* row references the file stored last, and more files were stored than rows
\* created (a replace stores a file and creates no row).
C13_Witness ==
    /\ request.op = "replace"
    /\ response.status = 200
    /\ Cardinality(ImagesOf(request.car)) >= 2
    /\ images[request.arg[1]].is_primary
    /\ images[request.arg[1]].image = nextFile - 1
    /\ nextFile - 1 \in files
    /\ nextFile - 1 >= nextId

\* C14: replace, delete and set-primary on an image id that no row has, or that
\* a row of another car has, answer 404 and change no row and no file.
C14_WrongIdNotFound ==
    [][(/\ request'.op \in {"replace", "delete", "set_primary"}
        /\ ~(/\ request'.arg[1] \in DOMAIN images
              /\ images[request'.arg[1]].car = request'.car))
       => (/\ response'.status = 404
           /\ images' = images
           /\ files' = files)]_vars

\* C14 witness: a delete named an image of the other car and was answered 404;
\* the image is still there.
C14_Witness ==
    /\ request.op = "delete"
    /\ response.status = 404
    /\ request.arg[1] \in DOMAIN images
    /\ images[request.arg[1]].car # request.car

\* C15: a bulk upload that passed the capacity check and then failed on one of
\* its creates leaves the table as it was: no row of the batch, no change of
\* an existing row.
C15_BulkAllOrNothing ==
    [][(/\ request'.op = "bulk"
        /\ response'.status \notin {201, 400})
       => (/\ response'.status = 500
           /\ images' = images
           /\ nextId' = nextId)]_vars

\* C15 witness: a bulk upload failed on its second file: the order of the
\* first one (count + 1) was free, the order of the second one was taken.
C15_Witness ==
    /\ request.op = "bulk"
    /\ request.arg[1] >= 2
    /\ response.status = 500
    /\ response.error = "IntegrityError"
    /\ \A i \in ImagesOf(request.car) :
          images[i].order # Cardinality(ImagesOf(request.car)) + 1
    /\ \E i \in ImagesOf(request.car) :
          images[i].order = Cardinality(ImagesOf(request.car)) + 2
    /\ nextFile - 1 \in files
    /\ nextFile - 2 \in files
    /\ \A i \in DOMAIN images : images[i].image < nextFile - 2

\* C16 (as claimed): a single or bulk upload that does not succeed leaves no
\* file behind: the storage holds the files it held before the request.
C16_FailedCreateLeaksNoBlob ==
    [][(/\ request'.op \in {"upload", "bulk"}
        /\ response'.status # 201)
       => files' = files]_vars

\* C18 (as claimed): after a successful delete request, neither the row nor
\* the file the row referenced exists.
C18_DeleteReleasesBlob ==
    [][(/\ request'.op = "delete"
        /\ response'.status = 204)
       => (/\ request'.arg[1] \notin DOMAIN images'
           /\ images[request'.arg[1]].image \notin files')]_vars

\* C17 (as claimed): at every point of a replace request, if the file the image
\* referenced when the request loaded it is gone from the storage, the row
\* already references another file, and that file is stored.
C17_OldBlobKeptUntilUpdated ==
    \A w \in Workers :
        (/\ req[w].op = "replace"
         /\ req[w].old # 0
         /\ req[w].old \notin files)
        => (/\ req[w].pk \in DOMAIN images
            /\ images[req[w].pk].image # req[w].old
            /\ images[req[w].pk].image \in files)

\* C19: a request of any of the six mutating endpoints by a user who is not
\* authenticated, or who is neither staff nor approved, changes no row and no
\* file: the gallery after the request is the gallery before it.
C19_UnauthorizedChangesNothing ==
    [][(/\ request'.op \in {"upload", "bulk", "replace", "delete", "set_primary",
                            "reorder"}
        /\ \/ ~request'.user.is_authenticated
           \/ (~request'.user.is_staff /\ ~request'.user.is_approved))
       => (/\ images' = images
           /\ files' = files
           /\ nextId' = nextId
           /\ response'.status \in {401, 403})]_vars

\* C19 witness: an authenticated user, neither staff nor approved, asked to
\* delete an existing image of the car; the request was refused and the image
\* is there.
C19_Witness ==
    /\ request.op = "delete"
    /\ request.user.is_authenticated
    /\ ~request.user.is_staff
    /\ ~request.user.is_approved
    /\ response.status = 403
    /\ request.arg[1] \in ImagesOf(request.car)

\* C20 (as claimed): a single or bulk upload with a file of more than 5 MB is
\* answered with a client error, and creates no row and stores no file.
C20_OversizedUploadRejected ==
    [][(/\ request'.op \in {"upload", "bulk"}
        /\ request'.size # NoSize
        /\ ~ImageUploadValid(request'.size))
       => (/\ response'.status \in 400 .. 499
           /\ images' = images
           /\ files' = files)]_vars

\* C21: a successful set-primary on image X leaves X the only primary image of
\* its car, also when the car had several primary images or none before; no
\* row is added or removed, no order changes, and no other car is touched.
C21_SetPrimaryRepairsFlags ==
    [][(/\ request'.op = "set_primary"
        /\ response'.status = 200)
       => (/\ PrimariesAfter(request'.car) = {request'.arg[1]}
           /\ DOMAIN images' = DOMAIN images
           /\ \A i \in DOMAIN images :
                 /\ images'[i].car = images[i].car
                 /\ images'[i].order = images[i].order
                 /\ images'[i].image = images[i].image
                 /\ images[i].car # request'.car => images'[i] = images[i])]_vars

\* C21 witness: the first request served on the gallery with wrong flags was a
\* set-primary on car 1, and its image is the only primary image now.
C21_Witness ==
    /\ steps = MaxSteps - 1
    /\ request.op = "set_primary"
    /\ request.car = 1
    /\ response.status = 200
    /\ PrimariesOf(1) = {request.arg[1]}
    /\ Cardinality(ImagesOf(1)) = 3

\* C22 (as claimed): a set-primary or delete request that fails between two of
\* its writes, with no other request running, leaves the table as it was
\* before the request: the seeded gallery.
C22_FlipAndDeleteAtomic ==
    \A w \in Workers :
        (/\ req[w].op \in {"set_primary", "delete"}
         /\ req[w].error = "failure"
         /\ \A v \in Workers \ {w} : req[v].pc = "idle")
        => \E k \in SeedCounts : images = Seeded(k).db

\* C23 (as claimed, for two requests that both succeed and are not both
\* set-primary): however two concurrent requests on a gallery interleave, once
\* both have returned every car with images has exactly one primary image and
\* every car without images has none.
C23_ConcurrentOpsOnePrimary ==
    (/\ AllDone
     /\ \A w \in Workers : req[w].status \in 200 .. 299
     /\ \E w \in Workers : req[w].op # "set_primary")
        => \A car \in Cars :
              IF ImagesOf(car) = {}
              THEN PrimariesOf(car) = {}
              ELSE Cardinality(PrimariesOf(car)) = 1

\* C24: when the primary image of a car is deleted and other images remain,
\* the image promoted is the first of the remaining ones under the default
\* ordering (primary first, then lower order, then earlier upload), which is
\* the remaining image with the lowest order.
C24_PromotedIsFirstSurvivor ==
    [][(/\ request'.op = "delete"
        /\ response'.status = 204
        /\ request'.arg[1] \in PrimariesOf(request'.car)
        /\ ImagesOf(request'.car) # {request'.arg[1]})
       => (LET S == ImagesOf(request'.car) \ {request'.arg[1]}
           IN  \E n \in S :
                 /\ PrimariesAfter(request'.car) = {n}
                 /\ \A j \in S \ {n} :
                       \/ images[n].is_primary /\ ~images[j].is_primary
                       \/ /\ images[n].is_primary = images[j].is_primary
                          /\ \/ images[n].order < images[j].order
                             \/ images[n].order = images[j].order /\ n < j
                 /\ \A j \in S : images[n].order <= images[j].order)]_vars

\* C24 witness: the third request deleted image 1; the primary image now has
\* the lowest order of the car, and an image uploaded before it remains (it
\* had got that order while image 1 was primary).
C24_Witness ==
    /\ steps = 3
    /\ request.op = "delete"
    /\ request.arg = <<1>>
    /\ response.status = 204
    /\ \E n \in PrimariesOf(request.car) :
          /\ \E j \in ImagesOf(request.car) : j < n
          /\ \A j \in ImagesOf(request.car) \ {n} : images[n].order < images[j].order

\* All items of the last request's reorder body name images of its car.
ReorderIdsBelong ==
    /\ request'.op = "reorder"
    /\ request'.arg # <<>>
    /\ \A k \in 1 .. (Len(request'.arg) \div 2) :
          /\ request'.arg[2 * k - 1] \in DOMAIN images
          /\ images[request'.arg[2 * k - 1]].car = request'.car

C26_OrderAtLeastOne == \A i \in DOMAIN images : images[i].order >= 1

\* C27: a user made by registration starts neither approved nor staff; a
\* promotion succeeds only for a user who was approved and not staff, and makes
\* that user staff; an approval or rejection (by the endpoint or by the admin
\* actions) changes and removes no user who is staff.
C27_UserLifecycle ==
    [][/\ (request'.op = "register" /\ response'.status = 201)
          => (/\ DOMAIN users' = DOMAIN users \cup {nextUser}
              /\ nextUser \notin DOMAIN users
              /\ ~users'[nextUser].is_approved
              /\ ~users'[nextUser].is_staff
              /\ \A u \in DOMAIN users : users'[u] = users[u])
       /\ (request'.op = "promote" /\ response'.status = 200)
          => (/\ request'.arg[1] \in DOMAIN users
              /\ users[request'.arg[1]].is_approved
              /\ ~users[request'.arg[1]].is_staff
              /\ users'[request'.arg[1]].is_staff
              /\ request'.user.is_staff)
       /\ (request'.op \in {"approve", "approve_workers", "disapprove_workers"})
          => \A u \in DOMAIN users :
                users[u].is_staff => (u \in DOMAIN users' /\ users'[u] = users[u])]_vars

\* C27 witness: a user who registered (key 2 or higher) was promoted and is
\* staff and approved now.
C27_Witness ==
    /\ request.op = "promote"
    /\ response.status = 200
    /\ request.arg[1] >= 2
    /\ users[request.arg[1]].is_staff
    /\ users[request.arg[1]].is_approved

====
